---------------------------- MODULE Spec2Model ----------------------------
(***************************************************************************)
(* Model of the YOLO detection pipeline (src/main.py), its MongoDB gateway  *)
(* (src/database.py) and the query tool (src/queary_db.py).                 *)
(*                                                                         *)
(* Spec   : one ObjectDetector, constructed and running process_video once *)
(*          over a stream of at most MaxFrames frames.                     *)
(* QSpec  : the query tool's menu loop over a collection of documents the  *)
(*          pipeline has persisted.                                        *)
(*                                                                         *)
(* The detector (YOLO), the video capture and the MongoDB server are       *)
(* external: the detector's output per frame, the end of the stream, the   *)
(* outcome of a connection attempt and of an insert are chosen             *)
(* nondeterministically.  A detection keeps its class name and the index   *)
(* of the box it was built from; confidence and bounding box are copied    *)
(* from the box and are not read by any operation modelled here.           *)
(* Time is counted in whole units (hours in QSpec); in Spec the clock       *)
(* advances by one unit with every frame read, so the clock always         *)
(* advances between the start of process_video and its summary.            *)
(***************************************************************************)
EXTENDS Integers, Sequences, FiniteSets, TLC

\* ------------------------------------------------------------------ bounds
MaxFrames == 2      \* frames the stream delivers at most
MaxBoxes  == 2      \* boxes the detector returns for one frame at most
MaxSkip   == 2      \* largest Config.FRAME_SKIP tried
MaxDocs   == 2      \* documents in the collection when the query tool starts, at most
MaxTicks  == 1      \* hours that pass while the query tool runs, at most

\* ----------------------------------------------------- configuration values
Classes == {"car", "person"}                 \* self.model.names (vocabulary)
TargetLists == {<<>>, <<"car">>, <<"person", "car">>}  \* values of TARGET_CLASSES tried
MODEL_NAME == "yolov8m.pt"
CONFIDENCE_THRESHOLD == "0.5"
VIDEO_SOURCE == "sample.mp4"
\* another source a run may have been started with (an RTSP stream)
CAMERA_SOURCE == "rtsp://camera"
HoursPerDay == 24                            \* timedelta(days=1), in hours
DefaultDays == 7                             \* days kept when none is given
DefaultHours == 1                            \* hours looked back when none is given

VARIABLES
    FRAME_SKIP,        \* Config.FRAME_SKIP
    TARGET_CLASSES,    \* Config.TARGET_CLASSES (a list)
    ENABLE_MONGODB,    \* Config.ENABLE_MONGODB
    storeUp,           \* environment: the MongoDB server answers at startup
    pc,                \* position of the detector program
    db,                \* self.db is not None
    frame_count,       \* self.frame_count
    processed_frames,  \* self.processed_frames
    class_counts,      \* self.class_counts (dict class -> int)
    collection,        \* the documents of the MongoDB collection, insertion order
    next_id,           \* the store's next _id
    now,               \* the wall clock (datetime.utcnow), in hours
    out,               \* what has been printed, in order
    inserts,           \* history: the calls of MongoDB.insert_detection
    gated,             \* history: raw indices that passed the frame-skip gate
    snapshots,         \* history: one record per frame whose detections were folded
    qlast              \* query tool: the last request and what came of it

vars == <<FRAME_SKIP, TARGET_CLASSES, ENABLE_MONGODB, storeUp, pc, db,
          frame_count, processed_frames, class_counts, collection, next_id,
          now, out, inserts, gated, snapshots, qlast>>

config == <<FRAME_SKIP, TARGET_CLASSES, ENABLE_MONGODB, storeUp>>

\* --------------------------------------------------------------- utilities
Range(s) == {s[i] : i \in 1..Len(s)}

Max(a, b) == IF a >= b THEN a ELSE b

EmptyDict == [k \in {} |-> 0]

\* d[k] of a defaultdict(int) / d.get(k, 0)
Get(d, k) == IF k \in DOMAIN d THEN d[k] ELSE 0

\* d[k] = v
Put(d, k, v) == [x \in (DOMAIN d) \cup {k} |-> IF x = k THEN v ELSE d[x]]

RECURSIVE SumOver(_, _)
SumOver(d, keys) ==
    IF keys = {} THEN 0
    ELSE LET k == CHOOSE x \in keys : TRUE
         IN d[k] + SumOver(d, keys \ {k})

\* sum(d.values())
SumValues(d) == SumOver(d, DOMAIN d)

\* The detector's possible outputs for one frame: the class of each box.
DetectorOutputs == UNION {[1..n -> Classes] : n \in 0..MaxBoxes}


\* ----------------------------------------------------------------- output
\* One printed report.  kind names the print statement; the other fields carry
\* the numbers it prints.
Msg(kind) == [kind |-> kind, frame |-> 0, processed |-> 0, counts |-> EmptyDict]

\* _display_counts: "Frame <frame_count> (Processed: <processed_frames>) | ..."
DisplayCounts(fc, pf, frame_counts) ==
    [kind |-> "counts", frame |-> fc, processed |-> pf, counts |-> frame_counts]

\* _display_summary: totals and the running maximum per class
DisplaySummary(fc, pf, cc) ==
    [kind |-> "summary", frame |-> fc, processed |-> pf, counts |-> cc]

\* ------------------------------------------------------ ObjectDetector.__init__
\* The MongoDB() constructor raises when the server does not answer the ping;
\* __init__ catches it, prints the failure and the notice, and leaves db at None.
\* mutant: the constructor's exception is not caught
DetectorInitUncaught(enable, up) ==
    [db  |-> enable /\ up,
     pc  |-> IF enable /\ ~up THEN "crashed" ELSE "ready",
     out |-> <<Msg("loading_model")>> \o
             (IF enable /\ up THEN <<Msg("mongo_connected")>> ELSE <<>>)]

\* mutant: the constructor's exception is swallowed without a word
DetectorInitSilent(enable, up) ==
    [db  |-> enable /\ up,
     pc  |-> "ready",
     out |-> <<Msg("loading_model")>> \o
             (IF enable /\ up THEN <<Msg("mongo_connected")>> ELSE <<>>)]

DetectorInit(enable, up) ==
    [db  |-> enable /\ up,
     pc  |-> "ready",
     out |-> <<Msg("loading_model")>> \o
             (IF ~enable THEN <<>>
              ELSE IF up THEN <<Msg("mongo_connected")>>
              ELSE <<Msg("mongo_failed"), Msg("continuing_without_db")>>)]

\* ---------------------------------------------------------- frame cadence
\* if self.frame_count % self.config.FRAME_SKIP != 0: continue
\* mutant: the gate's comparison is inverted
ShouldProcessInverted(fc, skip) == fc % skip # 0

\* mutant: the gate is tested on the index before the increment
ShouldProcessBeforeIncrement(fc, skip) == (fc - 1) % skip = 0

ShouldProcess(fc, skip) == fc % skip = 0

\* ------------------------------------------------------ detections of a frame
\* if self.config.TARGET_CLASSES and class_name not in self.config.TARGET_CLASSES
\* mutant: the membership test is inverted
FilteredInverted(class_name, target) ==
    target # <<>> /\ class_name \in Range(target)

Filtered(class_name, target) ==
    target # <<>> /\ class_name \notin Range(target)

\* detection_data, built from box i
Detection(class_name, i) == [class_name |-> class_name, box |-> i]

\* mutant: the tally is taken before the class filter
BoxStepCountFirst(acc, class_name, i, target) ==
    LET counted == Put(acc.counts, class_name, Get(acc.counts, class_name) + 1)
    IN  IF target # <<>> /\ class_name \notin Range(target)
        THEN [counts |-> counted, dets |-> acc.dets]
        ELSE [counts |-> counted,
              dets   |-> Append(acc.dets, [class_name |-> class_name, box |-> i])]

\* One iteration of the loop over the boxes: acc is (frame_counts, detections_list).
BoxStep(acc, class_name, i, target) ==
    IF Filtered(class_name, target) THEN acc
    ELSE [counts |-> Put(acc.counts, class_name, Get(acc.counts, class_name) + 1),
          dets   |-> Append(acc.dets, Detection(class_name, i))]

RECURSIVE BoxLoop(_, _, _, _)
BoxLoop(acc, boxes, i, target) ==
    IF i > Len(boxes) THEN acc
    ELSE BoxLoop(BoxStep(acc, boxes[i], i, target), boxes, i + 1, target)

\* frame_counts and detections_list of one frame
ProcessBoxes(boxes, target) ==
    BoxLoop([counts |-> EmptyDict, dets |-> <<>>], boxes, 1, target)

\* for cls_name, count in frame_counts.items():
\*     self.class_counts[cls_name] = max(self.class_counts[cls_name], count)
\* mutant: the counts are accumulated
FoldSum(cc, frame_counts) ==
    [k \in (DOMAIN cc) \cup (DOMAIN frame_counts) |->
        Get(cc, k) + Get(frame_counts, k)]

Fold(cc, frame_counts) ==
    [k \in (DOMAIN cc) \cup (DOMAIN frame_counts) |->
        IF k \in DOMAIN frame_counts
        THEN Max(Get(cc, k), frame_counts[k])
        ELSE cc[k]]

\* ------------------------------------------------------------- persistence
\* mutant: the save is not conditioned on detections
ShouldSaveAnyFrame(conn, detections_list) == conn

\* if self.db and detections_list:
ShouldSave(conn, detections_list) == conn /\ detections_list # <<>>

\* mutant: processed_frame_number is filled from the wrong value
DocumentMislabelled(ts, source, fc, pf, detections_list, frame_counts) ==
    [timestamp              |-> ts,
     video_source           |-> source,
     frame_number           |-> fc,
     processed_frame_number |-> Len(detections_list),
     total_objects_detected |-> Len(detections_list),
     object_counts          |-> frame_counts,
     detections             |-> detections_list,
     model_info             |-> [model_name |-> MODEL_NAME,
                                 confidence_threshold |-> CONFIDENCE_THRESHOLD]]

\* the document of _save_to_mongodb
Document(ts, source, fc, pf, detections_list, frame_counts) ==
    [timestamp              |-> ts,
     video_source           |-> source,
     frame_number           |-> fc,
     processed_frame_number |-> pf,
     total_objects_detected |-> Len(detections_list),
     object_counts          |-> frame_counts,
     detections             |-> detections_list,
     model_info             |-> [model_name |-> MODEL_NAME,
                                 confidence_threshold |-> CONFIDENCE_THRESHOLD]]

\* MongoDB.insert_detection: insert_one stores the document under a fresh _id;
\* any failure of the store is raised again as an Exception.
InsertDetection(coll, id, document, ok) ==
    IF ok
    THEN [collection |-> Append(coll, [id |-> id, doc |-> document]),
          next_id |-> id + 1, raised |-> FALSE]
    ELSE [collection |-> coll, next_id |-> id, raised |-> TRUE]

\* mutant: the insert's exception is not caught
SaveToMongodbUncaught(coll, id, document, ok) ==
    LET r == InsertDetection(coll, id, document, ok)
    IN  [collection |-> r.collection,
         next_id    |-> r.next_id,
         call       |-> <<[doc |-> document, ok |-> ok]>>,
         out        |-> <<>>,
         raised     |-> r.raised]

\* _save_to_mongodb: build the document, insert it, catch and print any Exception.
SaveToMongodb(coll, id, document, ok) ==
    LET r == InsertDetection(coll, id, document, ok)
    IN  [collection |-> r.collection,
         next_id    |-> r.next_id,
         call       |-> <<[doc |-> document, ok |-> ok]>>,
         out        |-> IF r.raised THEN <<Msg("insert_error")>> ELSE <<>>,
         raised     |-> FALSE]

\* no call of _save_to_mongodb
NoSave(coll, id) ==
    [collection |-> coll, next_id |-> id, call |-> <<>>, out |-> <<>>,
     raised |-> FALSE]

\* -------------------------------------------------------- console input
\* A line typed at a prompt is a sequence of characters.
RECURSIVE StripLeft(_)
StripLeft(s) == IF s # <<>> /\ Head(s) = " " THEN StripLeft(Tail(s)) ELSE s

RECURSIVE StripRight(_)
StripRight(s) ==
    IF s # <<>> /\ s[Len(s)] = " " THEN StripRight(SubSeq(s, 1, Len(s) - 1)) ELSE s

\* str.strip()
Strip(s) == StripRight(StripLeft(s))

LowerChar(ch) ==
    CASE ch = "Y" -> "y" [] ch = "E" -> "e" [] ch = "S" -> "s"
      [] ch = "N" -> "n" [] ch = "O" -> "o" [] OTHER -> ch

\* str.lower()
Lower(s) == [i \in 1..Len(s) |-> LowerChar(s[i])]

Digits == {"0", "1", "2", "3", "4", "5", "6", "7", "8", "9"}

DigitValue(ch) ==
    CASE ch = "0" -> 0 [] ch = "1" -> 1 [] ch = "2" -> 2 [] ch = "3" -> 3
      [] ch = "4" -> 4 [] ch = "5" -> 5 [] ch = "6" -> 6 [] ch = "7" -> 7
      [] ch = "8" -> 8 [] ch = "9" -> 9

RECURSIVE DigitsValue(_)
DigitsValue(s) ==
    IF s = <<>> THEN 0
    ELSE DigitsValue(SubSeq(s, 1, Len(s) - 1)) * 10 + DigitValue(s[Len(s)])

\* int(s) of a stripped line: an optional sign and decimal digits, else ValueError
ParseInt(s) ==
    LET neg  == s # <<>> /\ Head(s) = "-"
        body == IF neg THEN Tail(s) ELSE s
    IN  IF body # <<>> /\ \A i \in 1..Len(body) : body[i] \in Digits
        THEN [ok |-> TRUE, value |-> IF neg THEN 0 - DigitsValue(body)
                                     ELSE DigitsValue(body)]
        ELSE [ok |-> FALSE, value |-> 0]

\* lines tried at the "older than N days" prompt
DaysInputs == {<<>>, <<"0">>, <<" ", "1">>, <<"-", "1">>, <<"x">>}

\* lines tried at the "(yes/no)" prompt
ConfirmInputs == {<<"y", "e", "s">>, <<" ", "Y", "e", "s", " ">>, <<"n", "o">>,
                  <<"y">>, <<>>}

\* lines tried at the "Filter by video source" prompt; a source name holds no
\* blank and is typed as one piece
SourceInputs == {<<>>, <<" ">>, <<VIDEO_SOURCE>>, <<" ", CAMERA_SOURCE, " ">>,
                 <<"webcam">>}

\* the text of a stripped line that holds at most one name
Text(line) == IF line = <<>> THEN "" ELSE Head(line)

\* lines tried at the "Number of hours to look back" prompt
HoursInputs == {<<>>, <<"0">>, <<" ", "2", "4">>, <<"-", "1">>, <<"x">>}

\* values of days tried when the purge functions are called directly
ApiDays == {0 - 1, 0, 1, DefaultDays}

\* ------------------------------------------------------------ retention purge
NoRequest ==
    [op |-> "none", days |-> 0, cutoff |-> 0, confirm |-> <<>>,
     asked |-> FALSE, outcome |-> "none", returned |-> 0,
     source |-> "", hours |-> 0, start |-> 0, events |-> <<>>, rows |-> <<>>]

\* mutant: the cutoff itself is deleted too
OlderThanOrAt(ts, cutoff) == ts <= cutoff

\* {"timestamp": {"$lt": cutoff_date}}
OlderThan(ts, cutoff) == ts < cutoff

\* collection.delete_many(filter): the documents left and deleted_count
DeleteMany(coll, cutoff) ==
    LET Kept(e) == ~OlderThan(e.doc.timestamp, cutoff)
    IN  [collection    |-> SelectSeq(coll, Kept),
         deleted_count |-> Cardinality({i \in 1..Len(coll) : ~Kept(coll[i])})]

\* MongoDB.delete_old_detections(days): a failure of the store is raised again
DeleteOldDetections(coll, clock, days, ok) ==
    LET cutoff_date == clock - days * HoursPerDay
        result      == DeleteMany(coll, cutoff_date)
    IN  IF ok
        THEN [collection |-> result.collection, cutoff |-> cutoff_date,
              returned |-> result.deleted_count, raised |-> FALSE]
        ELSE [collection |-> coll, cutoff |-> cutoff_date,
              returned |-> 0, raised |-> TRUE]

\* cleanup_old_data(days): connect (MongoDB() may raise), delete, print the count
CleanupOldData(coll, clock, days, up, ok) ==
    IF ~up
    THEN [collection |-> coll, cutoff |-> 0, returned |-> 0, raised |-> TRUE]
    ELSE DeleteOldDetections(coll, clock, days, ok)

\* mutant: anything but 'no' confirms
IsConfirmedUnlessNo(line) == Lower(Strip(line)) # <<"n", "o">>

\* confirm = input(...).strip().lower(); if confirm == 'yes':
IsConfirmed(line) == Lower(Strip(line)) = <<"y", "e", "s">>

\* days = input(...).strip(); days = int(days) if days else 7
DaysOf(line) ==
    IF Strip(line) = <<>> THEN [ok |-> TRUE, value |-> DefaultDays]
    ELSE ParseInt(Strip(line))

\* what a finished purge call leaves in qlast
Request(op, days, confirm, asked, r) ==
    [NoRequest EXCEPT !.op = op, !.days = days, !.cutoff = r.cutoff,
                      !.confirm = confirm, !.asked = asked,
                      !.outcome = IF r.raised THEN "error" ELSE "deleted",
                      !.returned = r.returned]

\* ----------------------------------------------------------- statistics
\* {"$match": {"video_source": video_source}}, left out when no source is given
Match(coll, video_source) ==
    LET FromSource(e) == e.doc.video_source = video_source
    IN  IF video_source = "" THEN coll ELSE SelectSeq(coll, FromSource)

\* {"$unwind": "$detections"}: one entry per detection of the matched events
RECURSIVE Unwind(_)
Unwind(coll) ==
    IF coll = <<>> THEN <<>> ELSE Head(coll).doc.detections \o Unwind(Tail(coll))

\* {"$group": {"_id": "$detections.class_name", "total_count": {"$sum": 1}}}
\* (the confidence columns of a row are not modelled)
Group(dets) ==
    {[_id |-> c,
      total_count |-> Cardinality({k \in 1..Len(dets) : dets[k].class_name = c})] :
         c \in {dets[k].class_name : k \in 1..Len(dets)}}

\* the ways of listing the rows of a set once each
Arrangements(rows) == {s \in [1..Cardinality(rows) -> rows] : Range(s) = rows}

\* mutant: the rows come back smallest count first
SortAscending(rows) ==
    {s \in Arrangements(rows) :
        \A i, j \in 1..Len(s) : i < j => s[i].total_count <= s[j].total_count}

\* {"$sort": {"total_count": -1}}: total_count is the only sort key, and the
\* store returns rows of equal key in any order
Sort(rows) ==
    {s \in Arrangements(rows) :
        \A i, j \in 1..Len(s) : i < j => s[i].total_count >= s[j].total_count}

\* MongoDB.get_object_statistics(video_source): the lists the store may return
GetObjectStatistics(coll, video_source) ==
    Sort(Group(Unwind(Match(coll, video_source))))

\* ------------------------------------------------------------ time range
\* hours = input(...).strip(); hours = int(hours) if hours else 1
HoursOf(line) ==
    IF Strip(line) = <<>> THEN [ok |-> TRUE, value |-> DefaultHours]
    ELSE ParseInt(Strip(line))

\* mutant: an event stamped exactly start_time is left out
InRangeAfterStart(ts, start_time, end_time) == ts > start_time /\ ts <= end_time

\* {"timestamp": {"$gte": start_time, "$lte": end_time}}
InRange(ts, start_time, end_time) == ts >= start_time /\ ts <= end_time

\* collection.find(query): the time range, and the source when one is given
Find(coll, start_time, end_time, video_source) ==
    LET Hit(e) == /\ InRange(e.doc.timestamp, start_time, end_time)
                  /\ (video_source # "" => e.doc.video_source = video_source)
    IN  SelectSeq(coll, Hit)

\* .sort("timestamp", -1): newest first, events of one timestamp in any order
SortNewestFirst(found) ==
    {s \in Arrangements(Range(found)) :
        \A i, j \in 1..Len(s) : i < j => s[i].doc.timestamp >= s[j].doc.timestamp}

\* MongoDB.get_detections_by_time_range: the lists the store may return
GetDetectionsByTimeRange(coll, start_time, end_time, video_source) ==
    SortNewestFirst(Find(coll, start_time, end_time, video_source))

\* the keys of a frame's object_counts in the order the frame first met them
RECURSIVE Keys(_, _)
Keys(dets, seen) ==
    IF dets = <<>> THEN <<>>
    ELSE IF Head(dets).class_name \in seen THEN Keys(Tail(dets), seen)
    ELSE <<Head(dets).class_name>> \o
         Keys(Tail(dets), seen \cup {Head(dets).class_name})

\* det['object_counts'].items()
Items(doc) ==
    LET keys == Keys(doc.detections, {})
    IN  [i \in 1..Len(keys) |->
            [cls_name |-> keys[i], count |-> doc.object_counts[keys[i]]]]

\* mutant: the largest single-event count is kept, as the live summary does
AddCountMax(total_objects, item) ==
    IF \E i \in 1..Len(total_objects) : total_objects[i].cls_name = item.cls_name
    THEN [i \in 1..Len(total_objects) |->
             IF total_objects[i].cls_name = item.cls_name
             THEN [total_objects[i] EXCEPT !.count = Max(@, item.count)]
             ELSE total_objects[i]]
    ELSE Append(total_objects, item)

\* total_objects[cls_name] = total_objects.get(cls_name, 0) + count; the dict
\* is kept as its items in insertion order
AddCount(total_objects, item) ==
    IF \E i \in 1..Len(total_objects) : total_objects[i].cls_name = item.cls_name
    THEN [i \in 1..Len(total_objects) |->
             IF total_objects[i].cls_name = item.cls_name
             THEN [total_objects[i] EXCEPT !.count = @ + item.count]
             ELSE total_objects[i]]
    ELSE Append(total_objects, item)

\* for cls_name, count in det['object_counts'].items(): ...
RECURSIVE AddCounts(_, _)
AddCounts(total_objects, items) ==
    IF items = <<>> THEN total_objects
    ELSE AddCounts(AddCount(total_objects, Head(items)), Tail(items))

\* for det in detections: ...
RECURSIVE Aggregate(_, _)
Aggregate(total_objects, detections) ==
    IF detections = <<>> THEN total_objects
    ELSE Aggregate(AddCounts(total_objects, Items(Head(detections).doc)),
                   Tail(detections))

\* sorted(total_objects.items(), key=lambda x: x[1], reverse=True): items of
\* equal count keep their order
RECURSIVE SortedByCount(_)
SortedByCount(items) ==
    IF items = <<>> THEN <<>>
    ELSE LET front == SortedByCount(SubSeq(items, 1, Len(items) - 1))
             item  == items[Len(items)]
             n     == Cardinality({i \in 1..Len(front) : front[i].count >= item.count})
         IN  SubSeq(front, 1, n) \o <<item>> \o SubSeq(front, n + 1, Len(front))

\* ------------------------------------------------------------------- Spec
Init ==
    /\ FRAME_SKIP \in 1..MaxSkip
    /\ TARGET_CLASSES \in TargetLists
    /\ ENABLE_MONGODB \in BOOLEAN
    /\ storeUp \in BOOLEAN
    /\ (~ENABLE_MONGODB => storeUp)
    /\ LET d == DetectorInit(ENABLE_MONGODB, storeUp)
       IN  /\ db = d.db
           /\ pc = d.pc
           /\ out = d.out
    /\ frame_count = 0
    /\ processed_frames = 0
    /\ class_counts = EmptyDict
    /\ collection = <<>>
    /\ next_id = 1
    /\ now = 0
    /\ inserts = <<>>
    /\ gated = <<>>
    /\ snapshots = <<>>
    /\ qlast = NoRequest

\* cap.isOpened() is false: print the error and return
OpenFail ==
    /\ pc = "ready"
    /\ pc' = "open_error"
    /\ out' = Append(out, Msg("open_error"))
    /\ UNCHANGED <<qlast, config, db, frame_count, processed_frames, class_counts,
                   collection, next_id, now, inserts, gated, snapshots>>

\* the source opens: print the header and enter the loop
Open ==
    /\ pc = "ready"
    /\ pc' = "loop"
    /\ out' = Append(out, Msg("header"))
    /\ UNCHANGED <<qlast, config, db, frame_count, processed_frames, class_counts,
                   collection, next_id, now, inserts, gated, snapshots>>

\* a frame is read and the gate skips it
SkipFrame ==
    /\ pc = "loop"
    /\ frame_count < MaxFrames
    /\ ~ShouldProcess(frame_count + 1, FRAME_SKIP)
    /\ frame_count' = frame_count + 1
    /\ now' = now + 1
    /\ UNCHANGED <<qlast, config, pc, db, processed_frames, class_counts, collection,
                   next_id, out, inserts, gated, snapshots>>

\* a frame is read, passes the gate and goes through one whole iteration
ProcessFrame(boxes, ok) ==
    /\ pc = "loop"
    /\ frame_count < MaxFrames
    /\ ShouldProcess(frame_count + 1, FRAME_SKIP)
    /\ LET fc   == frame_count + 1
           pf   == processed_frames + 1
           r    == ProcessBoxes(boxes, TARGET_CLASSES)
           cc   == Fold(class_counts, r.counts)
           save == ShouldSave(db, r.dets)
           s    == IF save
                   THEN SaveToMongodb(collection, next_id,
                            Document(now + 1, VIDEO_SOURCE, fc, pf, r.dets, r.counts),
                            ok)
                   ELSE NoSave(collection, next_id)
       IN  /\ (~save => ok)
           /\ frame_count' = fc
           /\ processed_frames' = pf
           /\ class_counts' = cc
           /\ collection' = s.collection
           /\ next_id' = s.next_id
           /\ now' = now + 1
           /\ inserts' = inserts \o s.call
           /\ gated' = Append(gated, fc)
           /\ snapshots' = Append(snapshots,
                  [frame |-> fc, boxes |-> boxes, counts |-> r.counts,
                   dets |-> r.dets, before |-> class_counts, after |-> cc])
           /\ IF s.raised
              THEN /\ pc' = "crashed"
                   /\ out' = out \o s.out \o <<DisplaySummary(fc, pf, cc)>>
              ELSE /\ pc' = "loop"
                   /\ out' = out \o s.out \o <<DisplayCounts(fc, pf, r.counts)>>
    /\ UNCHANGED <<qlast, config, db>>

\* cap.read() returns ret = False: leave the loop, print the summary
EndOfStream ==
    /\ pc = "loop"
    /\ pc' = "eos"
    /\ out' = Append(out, DisplaySummary(frame_count, processed_frames, class_counts))
    /\ UNCHANGED <<qlast, config, db, frame_count, processed_frames, class_counts,
                   collection, next_id, now, inserts, gated, snapshots>>

\* the user stops the run between two frames (Ctrl-C while reading, or 'q')
Interrupt ==
    /\ pc = "loop"
    /\ pc' = "interrupted"
    /\ out' = out \o <<Msg("interrupted"),
                       DisplaySummary(frame_count, processed_frames, class_counts)>>
    /\ UNCHANGED <<qlast, config, db, frame_count, processed_frames, class_counts,
                   collection, next_id, now, inserts, gated, snapshots>>

\* Ctrl-C while the detector runs on a frame that passed the gate: both
\* counters are advanced, nothing of the frame is folded, saved or displayed
InterruptDetect ==
    /\ pc = "loop"
    /\ frame_count < MaxFrames
    /\ ShouldProcess(frame_count + 1, FRAME_SKIP)
    /\ frame_count' = frame_count + 1
    /\ processed_frames' = processed_frames + 1
    /\ gated' = Append(gated, frame_count + 1)
    /\ pc' = "interrupted"
    /\ out' = out \o <<Msg("interrupted"),
                       DisplaySummary(frame_count + 1, processed_frames + 1,
                                      class_counts)>>
    /\ now' = now + 1
    /\ UNCHANGED <<qlast, config, db, class_counts, collection, next_id, inserts,
                   snapshots>>

Next ==
    \/ OpenFail
    \/ Open
    \/ SkipFrame
    \/ \E boxes \in DetectorOutputs, ok \in BOOLEAN :
           ProcessFrame(boxes, ok)
    \/ EndOfStream
    \/ Interrupt
    \/ InterruptDetect

Spec == Init /\ [][Next]_vars

\* ------------------------------------------------------------------ QSpec
\* the detector's side stays as constructed while the query tool runs
detector == <<FRAME_SKIP, TARGET_CLASSES, ENABLE_MONGODB, storeUp, pc, db,
              frame_count, processed_frames, class_counts, out, inserts, gated,
              snapshots>>

QNow0 == (DefaultDays + 1) * HoursPerDay

\* timestamps of stored documents: around the cutoffs of the purges tried
QTimes == {QNow0 - DefaultDays * HoursPerDay - 1, QNow0 - HoursPerDay - 1,
           QNow0 - HoursPerDay, QNow0 - 1, QNow0}

\* the detector's output behind the n-th stored document
QBoxes(n) == IF n % 2 = 1 THEN <<"person", "car">> ELSE <<"car">>

\* the run that stored the n-th document: the first one is of the video file
QSource(n) == IF n = 1 THEN VIDEO_SOURCE ELSE CAMERA_SOURCE

\* the n-th stored document: what _save_to_mongodb builds for frame n
QDocument(n, ts) ==
    LET r == ProcessBoxes(QBoxes(n), <<>>)
    IN  [id |-> n, doc |-> Document(ts, QSource(n), n, n, r.dets, r.counts)]

\* the collections the query tool may find: any timestamps, in any order
QCollections ==
    UNION {{[n \in 1..len |-> QDocument(n, ts[n])] : ts \in [1..len -> QTimes]} :
           len \in 0..MaxDocs}

QInit ==
    /\ FRAME_SKIP = 1
    /\ TARGET_CLASSES = <<>>
    /\ ENABLE_MONGODB = TRUE
    /\ storeUp = TRUE
    /\ LET d == DetectorInit(ENABLE_MONGODB, storeUp)
       IN  /\ db = d.db
           /\ pc = d.pc
           /\ out = d.out
    /\ frame_count = 0
    /\ processed_frames = 0
    /\ class_counts = EmptyDict
    /\ inserts = <<>>
    /\ gated = <<>>
    /\ snapshots = <<>>
    /\ collection \in QCollections
    /\ next_id = Len(collection) + 1
    /\ now = QNow0
    /\ qlast = NoRequest

\* menu option 6 of queary_db.main: both prompts, then the purge or the refusal
Option6(daysLine, confirmLine, up, ok) ==
    LET days == DaysOf(daysLine)
    IN  IF ~days.ok
        THEN \* int() raised before the confirmation prompt: "Error" is printed
             /\ confirmLine = <<>> /\ up /\ ok
             /\ qlast' = [NoRequest EXCEPT !.op = "option6", !.outcome = "error"]
             /\ UNCHANGED <<detector, collection, next_id, now>>
        ELSE IF IsConfirmed(confirmLine)
        THEN LET r == CleanupOldData(collection, now, days.value, up, ok)
             IN  /\ (~up => ok)
                 /\ collection' = r.collection
                 /\ qlast' = Request("option6", days.value, confirmLine, TRUE, r)
                 /\ UNCHANGED <<detector, next_id, now>>
        ELSE /\ up /\ ok
             /\ qlast' = [NoRequest EXCEPT !.op = "option6", !.days = days.value,
                                          !.confirm = confirmLine, !.asked = TRUE,
                                          !.outcome = "cancelled"]
             /\ UNCHANGED <<detector, collection, next_id, now>>

\* menu option 2 of queary_db.main: display_object_statistics of the typed
\* source, or of all sources when the line is blank
Option2(sourceLine, up, ok) ==
    LET video_source == Text(Strip(sourceLine))
    IN  /\ (~up => ok)
        /\ IF up /\ ok
           THEN \E stats \in GetObjectStatistics(collection, video_source) :
                   qlast' = [NoRequest EXCEPT
                                !.op = "option2", !.source = video_source,
                                !.outcome = IF stats = <<>> THEN "empty" ELSE "stats",
                                !.rows = stats]
           ELSE qlast' = [NoRequest EXCEPT !.op = "option2",
                                           !.source = video_source,
                                           !.outcome = "error"]
        /\ UNCHANGED <<detector, collection, next_id, now>>

\* menu option 3 of queary_db.main: display_detections_by_time_range of the
\* typed number of hours, or of one hour when the line is blank
Option3(hoursLine, up, ok) ==
    LET hours == HoursOf(hoursLine)
    IN  IF ~hours.ok
        THEN \* int() raised before the store is opened: "Error" is printed
             /\ up /\ ok
             /\ qlast' = [NoRequest EXCEPT !.op = "option3", !.outcome = "error"]
             /\ UNCHANGED <<detector, collection, next_id, now>>
        ELSE LET end_time   == now
                 start_time == end_time - hours.value
             IN  /\ (~up => ok)
                 /\ IF up /\ ok
                    THEN \E detections \in GetDetectionsByTimeRange(
                                               collection, start_time, end_time, "") :
                            qlast' = [NoRequest EXCEPT
                                !.op = "option3", !.hours = hours.value,
                                !.start = start_time,
                                !.outcome = IF detections = <<>> THEN "empty"
                                            ELSE "range",
                                !.returned = Len(detections),
                                !.events = [i \in 1..Len(detections) |->
                                               detections[i].id],
                                !.rows = IF detections = <<>> THEN <<>>
                                         ELSE SortedByCount(Aggregate(<<>>, detections))]
                    ELSE qlast' = [NoRequest EXCEPT !.op = "option3",
                                                    !.hours = hours.value,
                                                    !.start = start_time,
                                                    !.outcome = "error"]
                 /\ UNCHANGED <<detector, collection, next_id, now>>

\* cleanup_old_data(days) called by itself
CallCleanupOldData(days, up, ok) ==
    LET r == CleanupOldData(collection, now, days, up, ok)
    IN  /\ (~up => ok)
        /\ collection' = r.collection
        /\ qlast' = Request("cleanup_old_data", days, <<>>, FALSE, r)
        /\ UNCHANGED <<detector, next_id, now>>

\* MongoDB.delete_old_detections(days) called by itself on an open connection
CallDeleteOldDetections(days, ok) ==
    LET r == DeleteOldDetections(collection, now, days, ok)
    IN  /\ collection' = r.collection
        /\ qlast' = Request("delete_old_detections", days, <<>>, FALSE, r)
        /\ UNCHANGED <<detector, next_id, now>>

\* an hour passes
Tick ==
    /\ now < QNow0 + MaxTicks
    /\ now' = now + 1
    /\ UNCHANGED <<detector, collection, next_id, qlast>>

QNext ==
    \/ \E sourceLine \in SourceInputs, up \in BOOLEAN, ok \in BOOLEAN :
           Option2(sourceLine, up, ok)
    \/ \E hoursLine \in HoursInputs, up \in BOOLEAN, ok \in BOOLEAN :
           Option3(hoursLine, up, ok)
    \/ \E daysLine \in DaysInputs, confirmLine \in ConfirmInputs,
          up \in BOOLEAN, ok \in BOOLEAN :
           Option6(daysLine, confirmLine, up, ok)
    \/ \E days \in ApiDays, up \in BOOLEAN, ok \in BOOLEAN :
           CallCleanupOldData(days, up, ok)
    \/ \E days \in ApiDays, ok \in BOOLEAN : CallDeleteOldDetections(days, ok)
    \/ Tick

QSpec == QInit /\ [][QNext]_vars

\* ================================================================= claims
\* raw indices up to n that are multiples of the skip interval
Multiples(n, skip) == {i \in 1..n : i % skip = 0}

\* the largest element of a non-empty set of numbers
SetMax(S) == CHOOSE m \in S : \A x \in S : m >= x

\* the largest count of class c in the first n folded frames (0 when there is none)
FrameMax(c, n) == SetMax({Get(snapshots[i].counts, c) : i \in 1..n} \cup {0})

\* number of reports of one kind printed so far
CountKind(kind) == Cardinality({i \in 1..Len(out) : out[i].kind = kind})

\* the store did not answer when the detector was constructed
StoreDownAtStartup == ENABLE_MONGODB /\ ~storeUp

\* C1: for every skip interval N >= 1 the frames that pass the gate are exactly
\* the raw indices (frame_count after the increment) that are multiples of N, in
\* order, and processed_frames is the number of such frames read so far.
C1_CadenceGate ==
    /\ FRAME_SKIP >= 1
    /\ Range(gated) = Multiples(frame_count, FRAME_SKIP)
    /\ \A i \in 1..Len(gated), j \in 1..Len(gated) : i < j => gated[i] < gated[j]
    /\ processed_frames = Cardinality(Multiples(frame_count, FRAME_SKIP))
    /\ \A n \in 1..Len(snapshots) : snapshots[n].frame % FRAME_SKIP = 0

C1_Witness ==
    /\ FRAME_SKIP = 2
    /\ frame_count = 2
    /\ processed_frames = 1
    /\ gated = <<2>>

\* C2: after each frame's fold class_counts[c] is the maximum, over the frames
\* folded so far, of the frame's count for c (not the sum); a class absent from
\* the frame's counts keeps its value; no class_counts[c] ever decreases.
C2_RunningMax ==
    /\ \A n \in 1..Len(snapshots) :
          /\ snapshots[n].before =
                 (IF n = 1 THEN EmptyDict ELSE snapshots[n - 1].after)
          /\ \A c \in Classes :
                /\ Get(snapshots[n].after, c) = FrameMax(c, n)
                /\ Get(snapshots[n].after, c) >= Get(snapshots[n].before, c)
                /\ c \notin DOMAIN snapshots[n].counts =>
                      /\ Get(snapshots[n].after, c) = Get(snapshots[n].before, c)
                      /\ (c \in DOMAIN snapshots[n].after
                            <=> c \in DOMAIN snapshots[n].before)
    /\ class_counts =
          (IF snapshots = <<>> THEN EmptyDict ELSE snapshots[Len(snapshots)].after)

C2_Witness ==
    /\ Len(snapshots) = 2
    /\ Get(snapshots[1].counts, "car") = 2
    /\ Get(snapshots[2].counts, "car") = 1
    /\ "person" \notin DOMAIN snapshots[1].counts
    /\ Get(snapshots[2].counts, "person") = 1
    /\ class_counts["car"] = 2
    /\ class_counts["person"] = 1

\* C3: with a non-empty TARGET_CLASSES no detections_list entry, frame_counts
\* key, class_counts key or entry of a document handed to the store has a class
\* outside TARGET_CLASSES; with an empty TARGET_CLASSES every box of the frame
\* is kept, in order.
C3_FilterExclusive ==
    /\ TARGET_CLASSES # <<>> =>
          /\ \A n \in 1..Len(snapshots) :
                /\ \A k \in 1..Len(snapshots[n].dets) :
                      snapshots[n].dets[k].class_name \in Range(TARGET_CLASSES)
                /\ DOMAIN snapshots[n].counts \subseteq Range(TARGET_CLASSES)
          /\ DOMAIN class_counts \subseteq Range(TARGET_CLASSES)
          /\ \A i \in 1..Len(inserts) :
                /\ \A k \in 1..Len(inserts[i].doc.detections) :
                      inserts[i].doc.detections[k].class_name
                          \in Range(TARGET_CLASSES)
                /\ DOMAIN inserts[i].doc.object_counts \subseteq Range(TARGET_CLASSES)
    /\ TARGET_CLASSES = <<>> =>
          \A n \in 1..Len(snapshots) :
              /\ Len(snapshots[n].dets) = Len(snapshots[n].boxes)
              /\ \A k \in 1..Len(snapshots[n].boxes) :
                    /\ snapshots[n].dets[k].class_name = snapshots[n].boxes[k]
                    /\ snapshots[n].dets[k].box = k

C3_Witness ==
    /\ TARGET_CLASSES = <<"car">>
    /\ Len(inserts) = 1
    /\ Len(snapshots) = 1
    /\ snapshots[1].boxes = <<"person", "car">>
    /\ inserts[1].doc.detections = <<[class_name |-> "car", box |-> 2]>>

\* C4: every document handed to the store has as many detections as the sum of
\* its object_counts, and total_objects_detected is that number.
C4_DocumentTotals ==
    \A i \in 1..Len(inserts) :
        /\ Len(inserts[i].doc.detections) = SumValues(inserts[i].doc.object_counts)
        /\ inserts[i].doc.total_objects_detected
               = SumValues(inserts[i].doc.object_counts)

C4_Witness ==
    \E i \in 1..Len(inserts) :
        /\ inserts[i].doc.total_objects_detected = 2
        /\ DOMAIN inserts[i].doc.object_counts = {"car", "person"}
        /\ \E j \in 1..Len(inserts) :
              /\ j # i
              /\ TARGET_CLASSES # <<>>
              /\ inserts[j].doc.total_objects_detected = 1

\* C5: in the order of the insert_detection calls of one detector, the
\* documents' processed_frame_number and frame_number never decrease, failed
\* inserts included.
C5_InsertOrder ==
    \A i \in 1..Len(inserts), j \in 1..Len(inserts) :
        i < j =>
            /\ inserts[i].doc.processed_frame_number
                   <= inserts[j].doc.processed_frame_number
            /\ inserts[i].doc.frame_number <= inserts[j].doc.frame_number

C5_Witness ==
    /\ Len(inserts) = 2
    /\ ~inserts[1].ok
    /\ inserts[2].ok
    /\ Len(inserts[1].doc.detections) = 2
    /\ Len(inserts[2].doc.detections) = 1

\* a step in which insert_detection was called and raised
FailedInsertStep ==
    /\ Len(inserts') = Len(inserts) + 1
    /\ ~inserts'[Len(inserts')].ok

\* C6: when insert_detection raises for a frame, the error is printed, the loop
\* goes on (the frame's counts are displayed and the next frame can be read),
\* frame_count, processed_frames and class_counts are what the frame makes them
\* without the failure, nothing is stored, and the document is not tried again:
\* every insert is for a frame later than all inserts before it.
C6_FailedPersist ==
    [][ /\ FailedInsertStep =>
              /\ pc' = "loop"
              /\ Len(out') = Len(out) + 2
              /\ out'[Len(out) + 1].kind = "insert_error"
              /\ out'[Len(out) + 2] =
                     DisplayCounts(frame_count + 1, processed_frames + 1,
                                   inserts'[Len(inserts')].doc.object_counts)
              /\ frame_count' = frame_count + 1
              /\ processed_frames' = processed_frames + 1
              /\ \A c \in Classes :
                     Get(class_counts', c) =
                         Max(Get(class_counts, c),
                             Get(inserts'[Len(inserts')].doc.object_counts, c))
              /\ collection' = collection
              /\ next_id' = next_id
        /\ Len(inserts') > Len(inserts) =>
              /\ Len(inserts') = Len(inserts) + 1
              /\ \A i \in 1..Len(inserts) : inserts'[i] = inserts[i]
              /\ inserts'[Len(inserts')].doc.frame_number = frame_count'
              /\ \A i \in 1..Len(inserts) :
                     inserts[i].doc.frame_number < frame_count'
      ]_vars

C6_Witness ==
    /\ pc = "eos"
    /\ Len(inserts) = 2
    /\ ~inserts[1].ok
    /\ inserts[2].ok
    /\ Len(collection) = 1
    /\ collection[1].doc = inserts[2].doc
    /\ CountKind("insert_error") = 1
    /\ CountKind("counts") = 2

\* C7: when the store does not answer at startup, the detector is constructed
\* all the same and prints the notice; every folded frame gets its counts line;
\* nothing is handed to the store or stored; and at the end of the stream the
\* summary is printed with the totals and the running maximum of each class.
C7_StoreDownRun ==
    StoreDownAtStartup =>
        /\ pc \in {"ready", "open_error", "loop", "eos", "interrupted"}
        /\ ~db
        /\ CountKind("continuing_without_db") = 1
        /\ inserts = <<>>
        /\ collection = <<>>
        /\ CountKind("counts") = Len(snapshots)
        /\ \A n \in 1..Len(snapshots) :
              \E i \in 1..Len(out) :
                  /\ out[i].kind = "counts"
                  /\ out[i].frame = snapshots[n].frame
                  /\ out[i].processed = n
                  /\ out[i].counts = snapshots[n].counts
        /\ pc = "eos" =>
              /\ Len(snapshots) = processed_frames
              /\ out[Len(out)].kind = "summary"
              /\ out[Len(out)].frame = frame_count
              /\ out[Len(out)].processed = processed_frames
              /\ \A c \in Classes :
                     Get(out[Len(out)].counts, c) = FrameMax(c, Len(snapshots))

C7_Witness ==
    /\ StoreDownAtStartup
    /\ pc = "eos"
    /\ processed_frames = 2
    /\ Get(class_counts, "car") = 2
    /\ Get(snapshots[2].counts, "car") = 1

\* C8 as claimed: in degraded mode every processed frame whose event would have
\* been persisted produces a report that its persist was skipped.
C8_EverySkipReported ==
    StoreDownAtStartup =>
        CountKind("persist_skipped") =
            Cardinality({n \in 1..Len(snapshots) : snapshots[n].dets # <<>>})

\* C8 as amended: in degraded mode frames are still processed and folded into
\* class_counts, and the skipped persists are reported once, by the notice
\* printed at startup before the source is opened; after it only the counts
\* lines, an interrupt message and the summary are printed, so no report is
\* made per skipped persist.
C8_DegradedNoticeOnce ==
    StoreDownAtStartup =>
        /\ ~db
        /\ CountKind("continuing_without_db") = 1
        /\ \A i \in 1..Len(out) :
              /\ out[i].kind = "continuing_without_db" =>
                    \A j \in 1..Len(out) :
                        out[j].kind \in {"header", "open_error"} => i < j
              /\ out[i].kind \in {"loading_model", "mongo_failed",
                                  "continuing_without_db", "header", "open_error",
                                  "counts", "interrupted", "summary"}
        /\ CountKind("counts") = Len(snapshots)
        /\ \A c \in Classes : Get(class_counts, c) = FrameMax(c, Len(snapshots))

C8_Witness ==
    /\ StoreDownAtStartup
    /\ Len(snapshots) = 2
    /\ snapshots[1].dets # <<>>
    /\ snapshots[2].dets # <<>>
    /\ CountKind("counts") = 2

\* a step in which a purge ran to its end (delete_many returned)
PurgeStep ==
    /\ qlast'.outcome = "deleted"
    /\ <<collection, qlast>>' # <<collection, qlast>>

\* C9: a purge with cutoff = now - days deletes exactly the stored documents
\* with timestamp < cutoff, keeps every other one as it was and in order (a
\* document at timestamp = cutoff stays), and returns the number deleted.
C9_PurgeExact ==
    [][ PurgeStep =>
          /\ qlast'.cutoff = now - qlast'.days * HoursPerDay
          /\ \A i \in 1..Len(collection) :
                (collection[i].doc.timestamp >= qlast'.cutoff)
                    <=> (\E j \in 1..Len(collection') : collection'[j] = collection[i])
          /\ \A j \in 1..Len(collection') :
                \E i \in 1..Len(collection) : collection[i] = collection'[j]
          /\ \A j \in 1..Len(collection'), k \in 1..Len(collection') :
                j < k => collection'[j].id < collection'[k].id
          /\ qlast'.returned = Len(collection) - Len(collection')
      ]_vars

C9_Witness ==
    /\ qlast.outcome = "deleted"
    /\ qlast.days = 1
    /\ qlast.returned = 1
    /\ Len(collection) = 1
    /\ collection[1].doc.timestamp = qlast.cutoff

\* C10 as claimed: on every path through the purge operations no document is
\* deleted unless the confirmation 'yes' was given.
C10_NoPurgeUnconfirmed ==
    (qlast.outcome = "deleted" /\ qlast.returned > 0) =>
        (qlast.asked /\ Lower(Strip(qlast.confirm)) = <<"y", "e", "s">>)

\* a step of menu option 6
Option6Step ==
    /\ qlast'.op = "option6"
    /\ <<collection, qlast>>' # <<collection, qlast>>

\* C10 as amended: the confirmation guards menu option 6 of the query tool:
\* there nothing is deleted unless the line typed at the prompt is 'yes' (any
\* case, spaces around it ignored), and any other line leaves the store
\* unchanged with the purge reported as cancelled.  cleanup_old_data and
\* MongoDB.delete_old_detections ask for nothing and delete when called.
C10_MenuPurgeConfirmed ==
    [][ Option6Step =>
          /\ collection' # collection =>
                /\ qlast'.asked
                /\ qlast'.confirm \in {<<"y", "e", "s">>, <<" ", "Y", "e", "s", " ">>}
          /\ (qlast'.asked /\ qlast'.confirm \in {<<"n", "o">>, <<"y">>, <<>>}) =>
                /\ collection' = collection
                /\ qlast'.outcome = "cancelled"
          /\ qlast'.outcome = "deleted" => qlast'.asked
      ]_vars

C10_Witness ==
    /\ qlast.op = "option6"
    /\ qlast.confirm = <<" ", "Y", "e", "s", " ">>
    /\ qlast.outcome = "deleted"
    /\ qlast.returned = 2
    /\ collection = <<>>

\* the insert_detection calls made for raw frame f
InsertsFor(f) == {i \in 1..Len(inserts) : inserts[i].doc.frame_number = f}

\* the stored documents of raw frame f
StoredFor(f) == {j \in 1..Len(collection) : collection[j].doc.frame_number = f}

\* C13 as claimed: a document is inserted for a processed frame if and only if
\* the store connection exists and the frame's filtered detection list is not
\* empty.
C13_InsertedIff ==
    \A n \in 1..Len(snapshots) :
        (StoredFor(snapshots[n].frame) # {}) <=> (db /\ snapshots[n].dets # <<>>)

\* C13 as amended: insert_detection is called for a processed frame if and only
\* if the connection exists and the frame's filtered detection list is not
\* empty, once, with that list; the document is stored if and only if that call
\* does not raise.  Frames without remaining detections, skipped frames and
\* frames interrupted before the save leave no call and no record, and every
\* document handed to the store has total_objects_detected >= 1.
C13_InsertAttemptedIff ==
    /\ \A n \in 1..Len(snapshots) :
          /\ Cardinality(InsertsFor(snapshots[n].frame)) =
                 (IF db /\ snapshots[n].dets # <<>> THEN 1 ELSE 0)
          /\ \A i \in InsertsFor(snapshots[n].frame) :
                /\ inserts[i].doc.detections = snapshots[n].dets
                /\ Cardinality(StoredFor(snapshots[n].frame)) =
                       (IF inserts[i].ok THEN 1 ELSE 0)
          /\ InsertsFor(snapshots[n].frame) = {} => StoredFor(snapshots[n].frame) = {}
    /\ \A i \in 1..Len(inserts) :
          /\ \E n \in 1..Len(snapshots) : snapshots[n].frame = inserts[i].doc.frame_number
          /\ inserts[i].doc.frame_number % FRAME_SKIP = 0
          /\ inserts[i].doc.total_objects_detected >= 1
    /\ \A j \in 1..Len(collection) :
          \E i \in 1..Len(inserts) : inserts[i].ok /\ inserts[i].doc = collection[j].doc
    /\ Len(inserts) <= processed_frames

C13_Witness ==
    /\ db
    /\ FRAME_SKIP = 1
    /\ Len(snapshots) = 2
    /\ snapshots[1].dets = <<>>
    /\ snapshots[1].boxes # <<>>
    /\ Len(inserts) = 1
    /\ inserts[1].ok
    /\ Len(collection) = 1
    /\ collection[1].doc.frame_number = 2

\* the counters agree, and every document carries them as read after advancing
CountersAgree ==
    /\ processed_frames = frame_count \div FRAME_SKIP
    /\ pc = "ready" => (frame_count = 0 /\ processed_frames = 0)
    /\ \A i \in 1..Len(inserts) :
          /\ inserts[i].doc.processed_frame_number
                 = inserts[i].doc.frame_number \div FRAME_SKIP
          /\ inserts[i].doc.frame_number
                 = inserts[i].doc.processed_frame_number * FRAME_SKIP
          /\ inserts[i].doc.frame_number >= 1
          /\ inserts[i].doc.processed_frame_number >= 1
    /\ \A j \in 1..Len(collection) :
          /\ collection[j].doc.frame_number
                 = collection[j].doc.processed_frame_number * FRAME_SKIP
          /\ collection[j].doc.frame_number >= 1
          /\ collection[j].doc.processed_frame_number >= 1

\* C14: before and after every step of process_video processed_frames is
\* frame_count div FRAME_SKIP, both counters are 0 before the first frame and
\* never decrease, and a document built in the step carries the counters as
\* they are after the step, so that frame_number = processed_frame_number *
\* FRAME_SKIP with both at least 1.
C14_CountersAgree ==
    [][ /\ CountersAgree
        /\ CountersAgree'
        /\ frame_count' >= frame_count
        /\ processed_frames' >= processed_frames
        /\ frame_count' <= frame_count + 1
        /\ Len(inserts') > Len(inserts) =>
              /\ inserts'[Len(inserts')].doc.frame_number = frame_count'
              /\ inserts'[Len(inserts')].doc.processed_frame_number
                     = processed_frames'
      ]_vars

C14_Witness ==
    /\ FRAME_SKIP = 2
    /\ frame_count = 2
    /\ processed_frames = 1
    /\ Len(collection) = 1
    /\ collection[1].doc.frame_number = 2
    /\ collection[1].doc.processed_frame_number = 1


\* class names in ascending (alphabetical) order
AscendingNames == <<"car", "person">>

\* a comes before b in ascending order of class_name
NameBefore(a, b) ==
    \E i, j \in 1..Len(AscendingNames) :
        i < j /\ AscendingNames[i] = a /\ AscendingNames[j] = b

\* the stored events a statistics request of the given source selects
EventsOf(video_source) ==
    {j \in 1..Len(collection) :
        video_source = "" \/ collection[j].doc.video_source = video_source}

\* the detections of class c in the selected events, as (event, position) pairs
DetectionsOf(video_source, c) ==
    UNION {{<<j, k>> : k \in {k \in 1..Len(collection[j].doc.detections) :
                                collection[j].doc.detections[k].class_name = c}} :
           j \in EventsOf(video_source)}

\* C11 as claimed: the rows of get_object_statistics come sorted by total_count
\* descending and, where two rows have the same total_count, by class_name
\* ascending, so that only one order is possible for a given set of events.
C11_TiesByClassName ==
    (qlast.op = "option2" /\ qlast.outcome = "stats") =>
        \A i, j \in 1..Len(qlast.rows) :
            i < j => \/ qlast.rows[i].total_count > qlast.rows[j].total_count
                     \/ /\ qlast.rows[i].total_count = qlast.rows[j].total_count
                        /\ NameBefore(qlast.rows[i]._id, qlast.rows[j]._id)

\* C11 as amended: get_object_statistics returns one row per class_name that
\* has a detection in the selected events (all events, or those of the given
\* video source), total_count is the number of those detections, and the rows
\* are sorted by total_count descending; no rows means "No statistics
\* available.".  Nothing is promised about rows of equal total_count.
C11_SortedByCount ==
    (qlast.op = "option2" /\ qlast.outcome # "error") =>
        LET rows == qlast.rows
        IN  /\ \A i \in 1..Len(rows) :
                  /\ rows[i].total_count =
                         Cardinality(DetectionsOf(qlast.source, rows[i]._id))
                  /\ rows[i].total_count >= 1
            /\ \A c \in Classes :
                  Cardinality({i \in 1..Len(rows) : rows[i]._id = c}) =
                      IF DetectionsOf(qlast.source, c) # {} THEN 1 ELSE 0
            /\ \A i, j \in 1..Len(rows) :
                  i < j => rows[i].total_count >= rows[j].total_count
            /\ (qlast.outcome = "empty") <=> (rows = <<>>)
            /\ (qlast.outcome = "stats") <=> (rows # <<>>)

\* the statistics of the video file's events alone, where car and person tie
\* at one detection each and the store lists person first
C11_Witness ==
    /\ qlast.op = "option2"
    /\ qlast.source = VIDEO_SOURCE
    /\ Len(collection) = 2
    /\ Len(qlast.rows) = 2
    /\ qlast.rows[1] = [_id |-> "person", total_count |-> 1]
    /\ qlast.rows[2] = [_id |-> "car", total_count |-> 1]


\* the sum of object_counts[c] over the stored events at the positions in S
RECURSIVE StoredTotal(_, _)
StoredTotal(S, c) ==
    IF S = {} THEN 0
    ELSE LET j == CHOOSE x \in S : TRUE
         IN  Get(collection[j].doc.object_counts, c) + StoredTotal(S \ {j}, c)

\* the timestamp of the stored event of the given id
StoredTime(id) ==
    LET j == CHOOSE x \in 1..Len(collection) : collection[x].id = id
    IN  collection[j].doc.timestamp

\* C12: display_detections_by_time_range(hours) reads exactly the stored
\* events whose timestamp lies in [now - hours, now], both ends included,
\* newest first, and reports for each class the sum of object_counts[class]
\* over those events (a sum across events, not the largest single count); a
\* class is listed iff that sum is positive, the lines come largest sum first,
\* "No detections found" is printed iff no event is in range, and the store is
\* left as it was.
C12_SumOverRange ==
    [][ (qlast'.op = "option3" /\ qlast'.outcome # "error" /\ qlast' # qlast) =>
          LET start_time == now - qlast'.hours
              inrange == {j \in 1..Len(collection) :
                             /\ collection[j].doc.timestamp >= start_time
                             /\ collection[j].doc.timestamp <= now}
              rows   == qlast'.rows
              events == qlast'.events
          IN  /\ collection' = collection
              /\ qlast'.start = start_time
              /\ qlast'.returned = Cardinality(inrange)
              /\ Len(events) = Cardinality(inrange)
              /\ Range(events) = {collection[j].id : j \in inrange}
              /\ \A i, j \in 1..Len(events) :
                    i < j => StoredTime(events[i]) >= StoredTime(events[j])
              /\ \A c \in Classes :
                    Cardinality({i \in 1..Len(rows) : rows[i].cls_name = c}) =
                        IF StoredTotal(inrange, c) > 0 THEN 1 ELSE 0
              /\ \A i \in 1..Len(rows) :
                    rows[i].count = StoredTotal(inrange, rows[i].cls_name)
              /\ \A i, j \in 1..Len(rows) : i < j => rows[i].count >= rows[j].count
              /\ (qlast'.outcome = "empty") <=> (inrange = {})
              /\ (qlast'.outcome = "range") <=> (inrange # {})
      ]_vars

\* the last hour holds two events, one stamped exactly an hour ago and one
\* stamped now: car is reported twice (once per event), person once
C12_Witness ==
    /\ qlast.op = "option3"
    /\ qlast.hours = DefaultHours
    /\ now = QNow0
    /\ Len(collection) = 2
    /\ collection[1].doc.timestamp = now - DefaultHours
    /\ collection[2].doc.timestamp = now
    /\ qlast.events = <<2, 1>>
    /\ qlast.rows = <<[cls_name |-> "car", count |-> 2],
                      [cls_name |-> "person", count |-> 1]>>

====
